---- MODULE Spec2Model ----
(***************************************************************************)
(* Model of tutorials/OnnxTensorflowExport.ipynb: a notebook whose cells   *)
(* freeze a TensorFlow graph (by hand, markdown cell 0), convert it to     *)
(* ONNX and write mnist.onnx (code cell 1), print the first node of the    *)
(* converted model (code cell 3) and run inference on the file written     *)
(* (code cell 5).                                                          *)
(*                                                                         *)
(* The notebook is executed by a kernel: one cell at a time, the kernel's  *)
(* global variables surviving from one cell to the next, each executed     *)
(* cell stamped with the kernel's execution counter ("execution_count" in  *)
(* the file: 4, 11 and 5 for cells 1, 3 and 5).  A statement that raises   *)
(* ends the cell; the kernel stays alive.                                  *)
(***************************************************************************)
EXTENDS Integers, Sequences, FiniteSets, TLC

VARIABLES
    cwd,              \* the kernel's working directory
    fs,               \* file system: path -> [exists, data]
    handles,          \* paths with an open file handle
    counter,          \* the kernel's execution counter
    execution_count,  \* cell -> counter value of its latest run (0: never run)
    status,           \* cell -> "never" | "running" | "ok" | "failed"
    pc,               \* [cell, stmt] being executed, or Idle
    ran,              \* cell -> statements attempted in its latest run, in order
    graph_def,        \* kernel globals: <<>> when unbound, <<v>> when bound
    onnx_model,
    file,
    model,
    tf_rep,
    img,
    output,
    stdout,           \* cell -> what its latest run printed (<<>>: nothing)
    freezeCall,       \* arguments of the latest freeze_graph invocation
    convCall          \* arguments of the latest tensorflow_graph_to_onnx_model call

vars == <<cwd, fs, handles, counter, execution_count, status, pc, ran,
          graph_def, onnx_model, file, model, tf_rep, img, output, stdout,
          freezeCall, convCall>>

kernelVars == <<graph_def, onnx_model, file, model, tf_rep, img, output>>

(***************************************************************************)
(* Bounds                                                                  *)
(***************************************************************************)
\* distinct training outcomes (checkpoints) the freezing tool can be given
NumCkpts == 2
\* cell executions in one kernel session
MaxRuns == 4

(***************************************************************************)
(* Constants of the notebook                                               *)
(***************************************************************************)
FreezeOutputNode == "fc2/add"       \* --output_node_names=fc2/add
\* the conversion call naming another node of the graph
ConvOutputNode_Other == "fc2/MatMul"
ConvOutputNode == "fc2/add"         \* second argument of the conversion call
Opset == 6                          \* opset=6
ImageSize == 784                    \* img.reshape([1, 784])

Dirs == {"/tmp", "/tutorials"}
FrozenDir == "/tmp"                 \* --output_graph=/tmp/frozen_graph.pb
FrozenName == "frozen_graph.pb"
OnnxName == "mnist.onnx"
ImageName == "./assets/image.npz"
Names == {FrozenName, OnnxName, ImageName}
Paths == Dirs \X Names

\* a relative name is resolved against the kernel's working directory
Resolve(name) == <<cwd, name>>

Cells == {"conv", "print", "infer"}
Idle == [cell |-> "none", stmt |-> 0]

\* statements of code cell 1
ConvWith == 1       \* with tf.gfile.GFile("frozen_graph.pb", "rb") as f:
ConvGraphDef == 2   \*     graph_def = tf.GraphDef()
ConvParse == 3      \*     graph_def.ParseFromString(f.read())
ConvConvert == 4    \*     onnx_model = tensorflow_graph_to_onnx_model(...)
ConvOpen == 5       \*     file = open("mnist.onnx", "wb")
ConvWrite == 6      \*     file.write(onnx_model.SerializeToString())
ConvClose == 7      \*     file.close()
\* statement of code cell 3
PrintNode == 1      \* print(onnx_model.graph.node[0])
\* statements of code cell 5
InferLoad == 1      \* model = onnx.load('mnist.onnx')
InferPrepare == 2   \* tf_rep = prepare(model)
InferImage == 3     \* img = np.load("./assets/image.npz")
InferRun == 4       \* output = tf_rep.run(img.reshape([1, 784]))
InferPrint == 5     \* print "The digit is classified as ", np.argmax(output)

(***************************************************************************)
(* Protocol buffers: a message is written as the sequence of its set       *)
(* fields; a field left out of the data reads back as its default.         *)
(***************************************************************************)
Field(tag, s, n) == [tag |-> tag, s |-> s, n |-> n]

NoFile == [exists |-> FALSE, data |-> <<>>]
File(data) == [exists |-> TRUE, data |-> data]

EmptyGraphDef == [node |-> "", weights |-> 0]

RECURSIVE FieldS(_, _, _)
FieldS(data, tag, default) ==
    IF data = <<>> THEN default
    ELSE IF Head(data).tag = tag THEN FieldS(Tail(data), tag, Head(data).s)
    ELSE FieldS(Tail(data), tag, default)

RECURSIVE FieldN(_, _, _)
FieldN(data, tag, default) ==
    IF data = <<>> THEN default
    ELSE IF Head(data).tag = tag THEN FieldN(Tail(data), tag, Head(data).n)
    ELSE FieldN(Tail(data), tag, default)

\* graph.SerializeToString() of the frozen graph
SerializeGraphDef(g) ==
    <<Field("node", g.node, 0), Field("const", "", g.weights)>>

\* graph_def.ParseFromString(data)
ParseGraphDef(data) ==
    [node |-> FieldS(data, "node", ""), weights |-> FieldN(data, "const", 0)]

\* onnx_model.SerializeToString()
SerializeToString(m) ==
    <<Field("opset_import", "", m.opset),
      Field("graph.output", m.output, 0),
      Field("graph.initializer", "", m.weights)>>

\* onnx.load: ModelProto parsed from the file's data
ParseModel(data) ==
    [opset |-> FieldN(data, "opset_import", 0),
     output |-> FieldS(data, "graph.output", ""),
     weights |-> FieldN(data, "graph.initializer", 0)]

\* the strict prefixes of data: what a write that raised may leave behind
Prefixes(data) == {SubSeq(data, 1, k) : k \in 0..(Len(data) - 1)}

(***************************************************************************)
(* Library calls                                                           *)
(***************************************************************************)
\* freeze_graph: the frozen graph keeps the nodes the output node needs
FreezeGraph(ckpt, outputNode) == [node |-> outputNode, weights |-> ckpt]

\* tensorflow_graph_to_onnx_model(graph_def, output, opset): defined only
\* when the graph has the output node
CanConvert(g, outputNode) == g.node = outputNode /\ outputNode /= ""
Convert(g, outputNode, opset) ==
    [opset |-> opset, output |-> outputNode, weights |-> g.weights]

\* prepare(model): the backend needs a complete model
CanPrepare(m) == m.opset /= 0 /\ m.output /= "" /\ m.weights /= 0

Bound(v) == v /= <<>>
Val(v) == v[1]

(***************************************************************************)
(* Initial state: a fresh kernel, nothing frozen or exported yet; the      *)
(* sample image may or may not be reachable from the working directory.    *)
(***************************************************************************)
Init ==
    /\ cwd \in Dirs
    /\ \E imageThere \in BOOLEAN :
          fs = [p \in Paths |->
                  IF p[2] = ImageName /\ p[1] = cwd /\ imageThere
                  THEN File(<<Field("array", "", ImageSize)>>)
                  ELSE NoFile]
    /\ handles = {}
    /\ counter = 0
    /\ execution_count = [c \in Cells |-> 0]
    /\ status = [c \in Cells |-> "never"]
    /\ pc = Idle
    /\ ran = [c \in Cells |-> <<>>]
    /\ graph_def = <<>>
    /\ onnx_model = <<>>
    /\ file = <<>>
    /\ model = <<>>
    /\ tf_rep = <<>>
    /\ img = <<>>
    /\ output = <<>>
    /\ stdout = [c \in Cells |-> <<>>]
    /\ freezeCall = <<>>
    /\ convCall = <<>>

(***************************************************************************)
(* Control flow of a cell                                                  *)
(***************************************************************************)
At(c, s) == pc = [cell |-> c, stmt |-> s]

\* the statement returned: go on with the next one, or finish the cell
Advance(c, s, last) ==
    /\ ran' = [ran EXCEPT ![c] = Append(@, s)]
    /\ IF s = last
       THEN pc' = Idle /\ status' = [status EXCEPT ![c] = "ok"]
       ELSE pc' = [cell |-> c, stmt |-> s + 1] /\ UNCHANGED status

\* the exception swallowed (except: pass): the cell goes on with the next statement
Raise_Continue(c, s) ==
    /\ ran' = [ran EXCEPT ![c] = Append(@, s)]
    /\ pc' = [cell |-> c, stmt |-> s + 1]
    /\ status' = [status EXCEPT ![c] = "failed"]

\* the statement raised: nothing in the cell catches it, the cell is over
Raise(c, s) ==
    /\ ran' = [ran EXCEPT ![c] = Append(@, s)]
    /\ pc' = Idle
    /\ status' = [status EXCEPT ![c] = "failed"]

\* leaving the with block (normally or by an exception) closes f
WithExit(h) == h \ {Resolve(FrozenName)}

\* the user executes a cell: the kernel stamps it and clears its output
RunCell(c) ==
    /\ pc = Idle
    /\ counter < MaxRuns
    /\ counter' = counter + 1
    /\ execution_count' = [execution_count EXCEPT ![c] = counter + 1]
    /\ status' = [status EXCEPT ![c] = "running"]
    /\ ran' = [ran EXCEPT ![c] = <<>>]
    /\ stdout' = [stdout EXCEPT ![c] = <<>>]
    /\ pc' = [cell |-> c, stmt |-> 1]
    /\ UNCHANGED <<cwd, fs, handles, kernelVars, freezeCall, convCall>>

(***************************************************************************)
(* Markdown cell 0: graph freezing, run by hand in a terminal              *)
(***************************************************************************)
Freeze ==
    /\ pc = Idle
    /\ \E ckpt \in 1..NumCkpts :
          /\ freezeCall' = <<[output_node_names |-> FreezeOutputNode,
                              ckpt |-> ckpt]>>
          /\ fs' = [fs EXCEPT ![<<FrozenDir, FrozenName>>] =
                      File(SerializeGraphDef(FreezeGraph(ckpt, FreezeOutputNode)))]
    /\ UNCHANGED <<cwd, handles, counter, execution_count, status, pc, ran,
                   kernelVars, stdout, convCall>>

(***************************************************************************)
(* Code cell 1: model conversion                                           *)
(***************************************************************************)
ConvFrame == UNCHANGED <<cwd, counter, execution_count, stdout, freezeCall,
                         model, tf_rep, img, output>>

\* mnist.onnx opened for writing at the top of the cell, before the conversion
ConvWithStmt_OpensOutput ==
    /\ At("conv", ConvWith)
    /\ fs' = [fs EXCEPT ![Resolve(OnnxName)] = File(<<>>)]
    /\ file' = <<Resolve(OnnxName)>>
    /\ handles' = handles \cup {Resolve(OnnxName)}
    /\ Advance("conv", ConvWith, ConvClose)
    /\ ConvFrame
    /\ UNCHANGED <<graph_def, onnx_model, convCall>>

\* with tf.gfile.GFile("frozen_graph.pb", "rb") as f:   (opened on first read)
ConvWithStmt ==
    /\ At("conv", ConvWith)
    /\ Advance("conv", ConvWith, ConvClose)
    /\ ConvFrame
    /\ UNCHANGED <<fs, handles, graph_def, onnx_model, file, convCall>>

\* graph_def = tf.GraphDef()
ConvGraphDefStmt ==
    /\ At("conv", ConvGraphDef)
    /\ graph_def' = <<EmptyGraphDef>>
    /\ Advance("conv", ConvGraphDef, ConvClose)
    /\ ConvFrame
    /\ UNCHANGED <<fs, handles, onnx_model, file, convCall>>

\* a missing frozen_graph.pb read as empty instead of raising
ConvParseStmt_NoCheck ==
    /\ At("conv", ConvParse)
    /\ ConvFrame
    /\ UNCHANGED <<fs, onnx_model, file, convCall>>
    /\ \/ /\ handles' = handles \cup {Resolve(FrozenName)}
          /\ graph_def' = <<ParseGraphDef(fs[Resolve(FrozenName)].data)>>
          /\ Advance("conv", ConvParse, ConvClose)
       \/ /\ handles' = WithExit(handles)
          /\ UNCHANGED graph_def
          /\ Raise("conv", ConvParse)

\* graph_def.ParseFromString(f.read())
ConvParseStmt ==
    /\ At("conv", ConvParse)
    /\ ConvFrame
    /\ UNCHANGED <<fs, onnx_model, file, convCall>>
    /\ \/ /\ fs[Resolve(FrozenName)].exists
          /\ handles' = handles \cup {Resolve(FrozenName)}
          /\ graph_def' = <<ParseGraphDef(fs[Resolve(FrozenName)].data)>>
          /\ Advance("conv", ConvParse, ConvClose)
       \/ /\ handles' = WithExit(handles)
          /\ UNCHANGED graph_def
          /\ Raise("conv", ConvParse)

\* onnx_model = tensorflow_graph_to_onnx_model(graph_def, "fc2/add", opset=6)
ConvConvertStmt ==
    /\ At("conv", ConvConvert)
    /\ ConvFrame
    /\ UNCHANGED <<fs, graph_def, file>>
    /\ convCall' = <<[graph |-> Val(graph_def), output |-> ConvOutputNode,
                      opset |-> Opset]>>
    /\ \/ /\ CanConvert(Val(graph_def), ConvOutputNode)
          /\ onnx_model' = <<Convert(Val(graph_def), ConvOutputNode, Opset)>>
          /\ UNCHANGED handles
          /\ Advance("conv", ConvConvert, ConvClose)
       \/ /\ handles' = WithExit(handles)
          /\ UNCHANGED onnx_model
          /\ Raise("conv", ConvConvert)

\* file = open("mnist.onnx", "wb")
ConvOpenStmt ==
    /\ At("conv", ConvOpen)
    /\ ConvFrame
    /\ UNCHANGED <<graph_def, onnx_model, convCall>>
    /\ \/ /\ fs' = [fs EXCEPT ![Resolve(OnnxName)] = File(<<>>)]
          /\ file' = <<Resolve(OnnxName)>>
          /\ handles' = handles \cup {Resolve(OnnxName)}
          /\ Advance("conv", ConvOpen, ConvClose)
       \/ /\ handles' = WithExit(handles)
          /\ UNCHANGED <<fs, file>>
          /\ Raise("conv", ConvOpen)

\* the frozen graph written out in place of the converted model
ConvWriteStmt_WritesGraphDef ==
    /\ At("conv", ConvWrite)
    /\ ConvFrame
    /\ UNCHANGED <<graph_def, onnx_model, file, convCall>>
    /\ \/ /\ fs' = [fs EXCEPT ![Val(file)] =
                      File(SerializeGraphDef(Val(graph_def)))]
          /\ UNCHANGED handles
          /\ Advance("conv", ConvWrite, ConvClose)
       \/ /\ \E part \in Prefixes(SerializeGraphDef(Val(graph_def))) :
                fs' = [fs EXCEPT ![Val(file)] = File(part)]
          /\ handles' = WithExit(handles)
          /\ Raise("conv", ConvWrite)

\* file.write(onnx_model.SerializeToString())
ConvWriteStmt ==
    /\ At("conv", ConvWrite)
    /\ ConvFrame
    /\ UNCHANGED <<graph_def, onnx_model, file, convCall>>
    /\ \/ /\ fs' = [fs EXCEPT ![Val(file)] =
                      File(SerializeToString(Val(onnx_model)))]
          /\ UNCHANGED handles
          /\ Advance("conv", ConvWrite, ConvClose)
       \/ /\ \E part \in Prefixes(SerializeToString(Val(onnx_model))) :
                fs' = [fs EXCEPT ![Val(file)] = File(part)]
          /\ handles' = WithExit(handles)
          /\ Raise("conv", ConvWrite)

\* file.close(), then the end of the with block
ConvCloseStmt ==
    /\ At("conv", ConvClose)
    /\ ConvFrame
    /\ UNCHANGED <<fs, graph_def, onnx_model, file, convCall>>
    /\ handles' = WithExit(handles \ {Val(file)})
    /\ Advance("conv", ConvClose, ConvClose)

(***************************************************************************)
(* Code cell 3: print the first node of the converted model                *)
(***************************************************************************)
\* what print(onnx_model.graph.node[0]) shows of the model
FirstNode(m) == [of |-> m]

PrintNodeStmt ==
    /\ At("print", PrintNode)
    /\ UNCHANGED <<cwd, fs, handles, counter, execution_count, kernelVars,
                   freezeCall, convCall>>
    /\ \/ /\ Bound(onnx_model)
          /\ stdout' = [stdout EXCEPT !["print"] = <<FirstNode(Val(onnx_model))>>]
          /\ Advance("print", PrintNode, PrintNode)
       \/ /\ ~Bound(onnx_model)
          /\ UNCHANGED stdout
          /\ Raise("print", PrintNode)

(***************************************************************************)
(* Code cell 5: inference using the backend                                *)
(***************************************************************************)
InferFrame == UNCHANGED <<cwd, fs, handles, counter, execution_count,
                          freezeCall, convCall, graph_def, onnx_model, file>>

\* the model taken from the kernel variable onnx_model instead of the file
InferLoadStmt_FromVariable ==
    /\ At("infer", InferLoad)
    /\ InferFrame
    /\ UNCHANGED <<tf_rep, img, output, stdout>>
    /\ \/ /\ Bound(onnx_model)
          /\ model' = onnx_model
          /\ Advance("infer", InferLoad, InferPrint)
       \/ /\ UNCHANGED model
          /\ Raise("infer", InferLoad)

\* model = onnx.load('mnist.onnx')
InferLoadStmt ==
    /\ At("infer", InferLoad)
    /\ InferFrame
    /\ UNCHANGED <<tf_rep, img, output, stdout>>
    /\ \/ /\ fs[Resolve(OnnxName)].exists
          /\ model' = <<ParseModel(fs[Resolve(OnnxName)].data)>>
          /\ Advance("infer", InferLoad, InferPrint)
       \/ /\ UNCHANGED model
          /\ Raise("infer", InferLoad)

\* tf_rep = prepare(model)
InferPrepareStmt ==
    /\ At("infer", InferPrepare)
    /\ InferFrame
    /\ UNCHANGED <<model, img, output, stdout>>
    /\ \/ /\ CanPrepare(Val(model))
          /\ tf_rep' = <<Val(model)>>
          /\ Advance("infer", InferPrepare, InferPrint)
       \/ /\ UNCHANGED tf_rep
          /\ Raise("infer", InferPrepare)

\* img = np.load("./assets/image.npz")
InferImageStmt ==
    /\ At("infer", InferImage)
    /\ InferFrame
    /\ UNCHANGED <<model, tf_rep, output, stdout>>
    /\ \/ /\ fs[Resolve(ImageName)].exists
          /\ img' = <<FieldN(fs[Resolve(ImageName)].data, "array", 0)>>
          /\ Advance("infer", InferImage, InferPrint)
       \/ /\ UNCHANGED img
          /\ Raise("infer", InferImage)

\* output = tf_rep.run(img.reshape([1, 784]))
InferRunStmt ==
    /\ At("infer", InferRun)
    /\ InferFrame
    /\ UNCHANGED <<model, tf_rep, img, stdout>>
    /\ \/ /\ Val(img) = ImageSize
          /\ output' = <<[by |-> Val(tf_rep), on |-> Val(img)]>>
          /\ Advance("infer", InferRun, InferPrint)
       \/ /\ UNCHANGED output
          /\ Raise("infer", InferRun)

\* print "The digit is classified as ", np.argmax(output)
InferPrintStmt ==
    /\ At("infer", InferPrint)
    /\ InferFrame
    /\ UNCHANGED <<model, tf_rep, img, output>>
    /\ stdout' = [stdout EXCEPT !["infer"] = output]
    /\ Advance("infer", InferPrint, InferPrint)

Next ==
    \/ Freeze
    \/ \E c \in Cells : RunCell(c)
    \/ ConvWithStmt
    \/ ConvGraphDefStmt
    \/ ConvParseStmt
    \/ ConvConvertStmt
    \/ ConvOpenStmt
    \/ ConvWriteStmt
    \/ ConvCloseStmt
    \/ PrintNodeStmt
    \/ InferLoadStmt
    \/ InferPrepareStmt
    \/ InferImageStmt
    \/ InferRunStmt
    \/ InferPrintStmt

Spec == Init /\ [][Next]_vars

(***************************************************************************)
(* Helpers for the properties                                              *)
(***************************************************************************)
\* statement s of cell c returned (did not raise) in the cell's latest run
Passed(c, s) ==
    /\ Len(ran[c]) >= s
    /\ ~(status[c] = "failed" /\ Len(ran[c]) = s)

\* the statements of a run so far are 1, 2, ..., each once
InOrder(c) == \A i \in 1..Len(ran[c]) : ran[c][i] = i

OnnxFile == fs[Resolve(OnnxName)]

(***************************************************************************)
(* C1 (as stated): the steps run as one linear sequence in document order, *)
(* each after its predecessor has finished: freezing before the conversion *)
(* cell, the conversion cell to completion before the print cell, the      *)
(* print cell before the inference cell.                                   *)
(***************************************************************************)
C1_DocumentOrder ==
    /\ Passed("conv", ConvParse) => Bound(freezeCall)
    /\ status["print"] /= "never" =>
          /\ status["conv"] = "ok"
          /\ execution_count["conv"] < execution_count["print"]
    /\ status["infer"] /= "never" =>
          /\ status["conv"] = "ok"
          /\ status["print"] = "ok"
          /\ execution_count["print"] < execution_count["infer"]

(***************************************************************************)
(* C1 (amended): cells run one at a time and the statements of a cell run  *)
(* in source order, each after the one before it has returned; the order   *)
(* of the cells is the user's.  What is guaranteed across cells is only    *)
(* that data is there when a statement gets past its use: the conversion   *)
(* cell gets past reading frozen_graph.pb only after freezing has written  *)
(* it, the print cell prints only after a conversion call has bound        *)
(* onnx_model, and onnx.load returns only after a conversion cell has      *)
(* opened mnist.onnx for writing.                                          *)
(***************************************************************************)
C1_CellsSequential ==
    /\ \A c \in Cells :
          /\ status[c] = "running" <=> pc.cell = c
          /\ InOrder(c)
          /\ pc.cell = c => Len(ran[c]) = pc.stmt - 1
    /\ Passed("conv", ConvParse) =>
          /\ Bound(freezeCall)
          /\ fs[<<FrozenDir, FrozenName>>].exists
          /\ cwd = FrozenDir
    /\ Passed("print", PrintNode) =>
          /\ Bound(onnx_model)
          /\ Bound(convCall)
    /\ Passed("infer", InferLoad) =>
          /\ OnnxFile.exists
          /\ file = <<Resolve(OnnxName)>>
          /\ status["conv"] /= "never"

\* the three cells have run to completion, the print cell last, as in the
\* execution counts the notebook records (4, 11, 5)
C1_Witness ==
    /\ \A c \in Cells : status[c] = "ok"
    /\ execution_count["conv"] < execution_count["infer"]
    /\ execution_count["infer"] < execution_count["print"]

(***************************************************************************)
(* C4: a statement that raises ends its cell: it is not retried, nothing   *)
(* recovers from it and no later statement of the cell runs (so a failed   *)
(* print or inference cell has printed nothing).                           *)
(***************************************************************************)
C4_FailureEndsCell ==
    \A c \in Cells :
        status[c] = "failed" =>
            /\ pc.cell /= c
            /\ Len(ran[c]) >= 1
            /\ InOrder(c)
            /\ c \in {"print", "infer"} => stdout[c] = <<>>

\* prepare raised in the inference cell, after onnx.load had returned
C4_Witness ==
    /\ status["infer"] = "failed"
    /\ ran["infer"] = <<InferLoad, InferPrepare>>
    /\ pc = Idle

(***************************************************************************)
(* C5 (as stated): every file handle a cell opens is closed by the time    *)
(* the cell finishes, on every path through the cell.                      *)
(***************************************************************************)
C5_HandlesClosed == pc = Idle => handles = {}

(***************************************************************************)
(* C6 (as stated): nothing but local variables is retained between the     *)
(* steps: no persisted state is carried from the conversion step on.       *)
(***************************************************************************)
C6_NoPersistedState == pc = Idle => ~OnnxFile.exists

(***************************************************************************)
(* C6 (amended): the conversion step leaves the file mnist.onnx behind,    *)
(* and that file is what the inference step consumes: as long as no later  *)
(* conversion run has touched the file, the model the inference cell       *)
(* loaded, and the one it prepared, is what parsing the file's contents    *)
(* gives, whatever the variable onnx_model holds.                          *)
(***************************************************************************)
C6_InferenceReadsFile ==
    (/\ Passed("infer", InferLoad)
     /\ execution_count["infer"] > execution_count["conv"]) =>
        /\ OnnxFile.exists
        /\ model = <<ParseModel(OnnxFile.data)>>
        /\ Passed("infer", InferPrepare) => tf_rep = <<ParseModel(OnnxFile.data)>>

\* the inference cell has loaded a model that is not the one onnx_model holds
C6_Witness ==
    /\ Passed("infer", InferLoad)
    /\ execution_count["infer"] > execution_count["conv"]
    /\ Bound(onnx_model)
    /\ model /= onnx_model

(***************************************************************************)
(* C7: when the conversion cell has completed and the inference cell runs  *)
(* after it, the model onnx.load returns, and the one passed to prepare,   *)
(* equals the onnx_model the conversion call returned.                     *)
(***************************************************************************)
C7_RoundTrip ==
    (/\ status["conv"] = "ok"
     /\ execution_count["infer"] > execution_count["conv"]
     /\ Passed("infer", InferLoad)) =>
        /\ model = onnx_model
        /\ Passed("infer", InferPrepare) => tf_rep = onnx_model

\* the backend has prepared the model loaded after a completed conversion
C7_Witness ==
    /\ status["conv"] = "ok"
    /\ execution_count["infer"] > execution_count["conv"]
    /\ Passed("infer", InferPrepare)
    /\ Val(model).weights \in 1..NumCkpts

(***************************************************************************)
(* C8: up to and including the conversion call the conversion cell does    *)
(* not touch mnist.onnx, so a run that fails reading, parsing or           *)
(* converting leaves the file as it was (absent, or as an earlier run      *)
(* wrote it).                                                              *)
(***************************************************************************)
C8_FailedConversionLeavesFile ==
    [][(pc.cell = "conv" /\ pc.stmt <= ConvConvert) =>
          fs'[Resolve(OnnxName)] = fs[Resolve(OnnxName)]]_vars

\* the conversion call raised on a newly frozen graph; mnist.onnx still
\* holds the model an earlier run exported
C8_Witness ==
    /\ status["conv"] = "failed"
    /\ Len(ran["conv"]) = ConvConvert
    /\ OnnxFile.exists
    /\ CanPrepare(ParseModel(OnnxFile.data))
    /\ ParseModel(OnnxFile.data).weights /= Val(graph_def).weights

(***************************************************************************)
(* C9: the conversion call is always made with the output node the graph   *)
(* was frozen for ("fc2/add"), and with opset 6.                           *)
(***************************************************************************)
C9_OutputNodeMatches ==
    Bound(convCall) =>
        /\ Bound(freezeCall)
        /\ Val(convCall).output = Val(freezeCall).output_node_names
        /\ Val(convCall).output = Val(convCall).graph.node
        /\ Val(convCall).opset = 6

\* the conversion call has been made and has returned a model
C9_Witness ==
    /\ Bound(convCall)
    /\ Passed("conv", ConvConvert)
    /\ Val(onnx_model).output = "fc2/add"

====
